---- MODULE Spec2Model ----
(***************************************************************************)
(* Model of the production controller of scilifelab's pm tool             *)
(* (scilifelab/pm/core/production.py) and of the dry-run aware             *)
(* primitives it works through (scilifelab/utils/dry.py).                  *)
(*                                                                         *)
(* A path is a sequence of name tokens, one per path component; a token    *)
(* of Exts is a file extension and continues the component before it      *)
(* (<<"FC1", "L1", ".fastq", ".gz">> is FC1/L1.fastq.gz).                  *)
(* A filesystem is a record [files, dirs]: files maps each existing file   *)
(* path to its content, dirs is the set of existing directory paths.       *)
(***************************************************************************)
EXTENDS Integers, Sequences, FiniteSets, TLC

VARIABLES
    fs,     \* the filesystem
    now,    \* the UTC clock read by utc_time()
    cmd,    \* the last command or primitive invoked, with its arguments
    pre,    \* the filesystem as it was when that command started
    ret,    \* the value the last primitive call returned
    exc,    \* the exception that ended the last command ("" when none)
    log     \* the primitive calls the last command made, in order

vars == <<fs, now, cmd, pre, ret, exc, log>>

\* ------------------------------------------------------------------ bounds

\* the clock runs from 0 to MaxTime
MaxTime == 1
\* the longest sample list handed to touch_finished
MaxList == 1

\* ------------------------------------------------------------- constants

FINISHED_FILE == "FINISHED_AND_DELIVERED"
REMOVED_FILE == "FINISHED_AND_REMOVED"

\* Python's None, where a path or a return value is expected
None == <<"<None>">>

\* the text rsync prints when nothing would be transferred
ZeroSize == "total size is 0"

\* ------------------------------------------------------------ file contents

Utc(t) == [kind |-> "utc", t |-> t]
Data == [kind |-> "data", t |-> 0]

\* utc_time(): the clock's reading, as the marker files store it
utc_time(t) == Utc(t)

\* ------------------------------------------------------------------ paths

Exts ==
    {".fastq", ".gz", ".bam", ".yaml", ".bak", "-bcbb-config.yaml",
     "-bcbb-pm-config.yaml", "-post_process.yaml"}

\* the names of the model in the order Python compares them as strings
NameOrder ==
    <<"-bcbb-config.yaml", "-bcbb-pm-config.yaml", "-post_process.yaml",
      ".bak", ".bam", ".fastq", ".gz", ".yaml", "<None>", "FC1",
      FINISHED_FILE, REMOVED_FILE, "L1", "L2", "P", "Q", "S1", "S2", "T",
      "a", "arch", "b", "c", "data", "f", "g", "h", "intermediate", "new",
      "nosuch", "prod", "proj", "project_run_info", "q", "run_info">>

Rank(n) == CHOOSE i \in 1..Len(NameOrder) : NameOrder[i] = n

RECURSIVE PathLess(_, _)
\* p < q as Python compares the two path strings: name by name (no
\* directory name of the model holds a character below the separator)
PathLess(p, q) ==
    IF p = <<>> THEN q # <<>>
    ELSE IF q = <<>> THEN FALSE
    ELSE IF Head(p) = Head(q) THEN PathLess(Tail(p), Tail(q))
    ELSE Rank(Head(p)) < Rank(Head(q))

RECURSIVE SortAsc(_)
\* sorted(S)
SortAsc(S) ==
    IF S = {} THEN <<>>
    ELSE LET m == CHOOSE x \in S : \A y \in S \ {x} : PathLess(x, y)
         IN <<m>> \o SortAsc(S \ {m})

Reverse(s) == [i \in 1..Len(s) |-> s[Len(s) + 1 - i]]

\* sorted(S, reverse=True)
SortDesc(S) == Reverse(SortAsc(S))

IsPrefix(p, q) == Len(p) <= Len(q) /\ SubSeq(q, 1, Len(p)) = p

RECURSIVE StripExts(_)
StripExts(p) ==
    IF p # <<>> /\ p[Len(p)] \in Exts THEN StripExts(SubSeq(p, 1, Len(p) - 1))
    ELSE p

\* os.path.dirname
dirname(p) ==
    LET q == StripExts(p)
    IN IF q = <<>> THEN <<>> ELSE SubSeq(q, 1, Len(q) - 1)

\* os.path.join(p, name)
join(p, name) == p \o name

\* --------------------------------------------------------------- filesystem

exists(f, p) == p \in DOMAIN f.files \/ p \in f.dirs
isdir(f, p) == p \in f.dirs
isfile(f, p) == p \in DOMAIN f.files

\* the entries directly inside directory d
children(f, d) == {p \in DOMAIN f.files \cup f.dirs : p # d /\ dirname(p) = d}

\* open(p, "w").write(data): creates or truncates
open_write(f, p, data) ==
    [f EXCEPT !.files = [q \in DOMAIN f.files \cup {p} |->
                            IF q = p THEN data ELSE f.files[q]]]

os_unlink(f, p) ==
    [f EXCEPT !.files = [q \in DOMAIN f.files \ {p} |-> f.files[q]]]

\* os.rmdir fails on a directory that is not empty
rmdir_ok(f, d) == children(f, d) = {}
os_rmdir(f, d) == [f EXCEPT !.dirs = f.dirs \ {d}]

\* the directories os.makedirs(d) creates: d and its missing ancestors
Ancestors(d) == {SubSeq(d, 1, i) : i \in 1..Len(d)}
os_makedirs(f, d) == [f EXCEPT !.dirs = f.dirs \cup Ancestors(d)]

\* the result of a call: the filesystem after it, the value returned, the
\* exception raised ("" when none)
Result(f, r, e) == [fs |-> f, ret |-> r, exc |-> e]

\* ------------------------------------------------- primitives (utils/dry.py)

\* "(DRY_RUN): " + str(message) + "\n"
DryRunString(message) == <<"(DRY_RUN)">> \o message

dry_ignoring_flag(f, message, run, dry_run) == run

\* dry(message, func, dry_run): run is the outcome of func()
dry(f, message, run, dry_run) ==
    IF dry_run THEN Result(f, DryRunString(message), "") ELSE run

unlink_runpipe(f, fn) ==
    IF fn = None THEN Result(f, None, "")
    ELSE IF ~exists(f, fn) THEN Result(f, None, "")
    ELSE IF isdir(f, fn) THEN Result(f, None, "OSError")
    ELSE Result(os_unlink(f, fn), None, "")

dry_unlink(f, fn, dry_run) ==
    dry(f, <<"removing file">> \o fn, unlink_runpipe(f, fn), dry_run)

rmdir_runpipe(f, dname) ==
    IF dname = None THEN Result(f, None, "")
    ELSE IF ~exists(f, dname) THEN Result(f, None, "")
    ELSE IF isdir(f, dname) /\ rmdir_ok(f, dname)
         THEN Result(os_rmdir(f, dname), None, "")
    ELSE Result(f, None, "")

dry_rmdir(f, dname, dry_run) ==
    dry(f, <<"removing directory">> \o dname, rmdir_runpipe(f, dname), dry_run)

\* write_runpipe without the test for an existing path
write_runpipe_overwrites(f, fn, data) ==
    IF fn = None THEN Result(f, None, "")
    ELSE IF ~isdir(f, dirname(fn)) \/ isdir(f, fn) THEN Result(f, None, "IOError")
    ELSE Result(open_write(f, fn, data), None, "")

write_runpipe(f, fn, data) ==
    IF fn = None THEN Result(f, None, "")
    ELSE IF exists(f, fn) THEN Result(f, None, "")
    ELSE IF ~isdir(f, dirname(fn)) THEN Result(f, None, "IOError")
    ELSE Result(open_write(f, fn, data), None, "")

dry_write(f, fn, data, dry_run) ==
    dry(f, <<"writing data to file">> \o fn, write_runpipe(f, fn, data), dry_run)

backup_runpipe(f, fn, fn_bak) ==
    IF fn = None THEN Result(f, None, "")
    ELSE IF exists(f, fn_bak) THEN Result(f, None, "")
    ELSE IF ~isfile(f, fn) \/ ~isdir(f, dirname(fn_bak))
         THEN Result(f, None, "IOError")
    ELSE Result(open_write(f, fn_bak, f.files[fn]), None, "")

dry_backup(f, fn, ext, dry_run) ==
    LET fn_bak == fn \o <<ext>>
    IN dry(f, <<"making backup of file">> \o fn \o <<"as">>,
           backup_runpipe(f, fn, fn_bak), dry_run)

\* makedir_runpipe without the tolerance of a directory made meanwhile
makedir_runpipe_intolerant(f, dname, race) ==
    IF dname = None THEN Result(f, None, "TypeError")
    ELSE IF ~exists(f, dname) THEN
        IF \E a \in Ancestors(dname) : isfile(f, a)
        THEN Result(f, None, "OSError")
        ELSE IF race = "dir" THEN Result(os_makedirs(f, dname), None, "OSError")
        ELSE IF race = "file"
             THEN Result(open_write(f, dname, Data), None, "OSError")
        ELSE Result(os_makedirs(f, dname), dname, "")
    ELSE Result(f, dname, "")

\* race is what another process put at dname between the existence check
\* and os.makedirs: "none", "dir" or "file"; nothing can be created, by
\* this process or another, under a file
makedir_runpipe(f, dname, race) ==
    IF dname = None THEN Result(f, None, "TypeError")
    ELSE IF ~exists(f, dname) THEN
        IF \E a \in Ancestors(dname) : isfile(f, a)
        THEN Result(f, None, "OSError")
        ELSE IF race = "dir" THEN Result(os_makedirs(f, dname), dname, "")
        ELSE IF race = "file"
             THEN Result(open_write(f, dname, Data), None, "OSError")
        ELSE Result(os_makedirs(f, dname), dname, "")
    ELSE Result(f, dname, "")

dry_makedir(f, dname, dry_run, race) ==
    dry(f, <<"Make directory">> \o dname, makedir_runpipe(f, dname, race), dry_run)

\* what a successful rsync of src to tgt leaves behind
rsync_effect(f, src, tgt) ==
    IF isfile(f, src) /\ isdir(f, dirname(tgt)) /\ ~isdir(f, tgt)
    THEN open_write(f, tgt, f.files[src]) ELSE f

\* x is the outcome of shell.exec_cmd: [stdout, returncode]
rsync_runpipe(f, src, tgt, ignore_error, capture, x) ==
    IF x.returncode # 0 /\ ~ignore_error THEN Result(f, None, "Exception")
    ELSE LET g == IF x.returncode = 0 THEN rsync_effect(f, src, tgt) ELSE f
         IN Result(g, IF capture THEN x.stdout ELSE None, "")

dry_rsync(f, src, tgt, options, dry_run, ignore_error, capture, x) ==
    IF src = None \/ tgt = None THEN Result(f, None, "")
    ELSE dry(f, <<"rsync", options>> \o src \o tgt,
             rsync_runpipe(f, src, tgt, ignore_error, capture, x), dry_run)

\* ------------------------------------- collaborators of the controller

\* str.find: the 0-based place of the first occurrence of sub in out, -1 when
\* there is none (out is the sequence of the output's pieces)
find(out, sub) ==
    IF \E i \in 1..Len(out) : out[i] = sub
    THEN (CHOOSE i \in 1..Len(out) :
              out[i] = sub /\ \A j \in 1..(i - 1) : out[j] # sub) - 1
    ELSE -1

\* Python's "not n" of an integer
PyNot(n) == n = 0

\* query_yes_no(question, force=...): the operator's answer, TRUE when forced
query_yes_no(answer, force) == force \/ answer

\* self.app.cmd.command(cl): the command's output, or the dry-run string
command(out, dry_run) == IF dry_run THEN DryRunString(<<"rsync">>) ELSE out

\* filtered_walk(spath, filter_fn) with a filter that keeps everything
walk_files(f, spath) == {p \in DOMAIN f.files : IsPrefix(spath, p) /\ p # spath}
\* filtered_walk(spath, filter_fn, get_dirs=True)
walk_dirs(f, spath) == {d \in f.dirs : IsPrefix(spath, d) /\ d # spath}

\* self.app.cmd.safe_unlink / safe_rmdir: the primitive under pargs.dry_run
safe_unlink(f, fn, dry_run) == dry_unlink(f, fn, dry_run)
safe_rmdir(f, dname, dry_run) == dry_rmdir(f, dname, dry_run)

\* ------------------------------------------------ the sample lifecycle

\* os.path.join(self._meta.root_path, self._meta.path_id)
ProjectPath == <<"prod", "P">>
SamplePath(s) == ProjectPath \o <<s>>
FinishedPath(s) == SamplePath(s) \o <<FINISHED_FILE>>
RemovedPath(s) == SamplePath(s) \o <<REMOVED_FILE>>

\* a command in progress: the filesystem, the calls made, the exception
Run(f, l, e) == [fs |-> f, log |-> l, exc |-> e]
Call(op, path) == <<op, path>>

\* the rsync check of touch_finished: TRUE when the sample is to be skipped
sync_pending(out, dry_run) == ~dry_run /\ PyNot(find(out, ZeroSize))

\* the body of touch_finished's loop for sample s
touch_sample(st, s, out, answer, force, dry_run, t) ==
    LET spath == SamplePath(s)
        o == command(out, dry_run)
        st1 == [st EXCEPT !.log = Append(@, Call("command", spath))]
    IN IF ~exists(st.fs, spath) THEN st
       ELSE IF sync_pending(o, dry_run) THEN st1
       ELSE IF ~query_yes_no(answer, force) THEN st1
       ELSE IF ~isdir(st.fs, spath) THEN [st1 EXCEPT !.exc = "IOError"]
       ELSE Run(open_write(st1.fs, FinishedPath(s), utc_time(t)),
                Append(st1.log, Call("write", FinishedPath(s))), "")

RECURSIVE touch_loop(_, _, _, _, _, _, _, _)
touch_loop(st, slist, outs, answers, i, force, dry_run, t) ==
    IF i > Len(slist) \/ st.exc # "" THEN st
    ELSE touch_loop(touch_sample(st, slist[i], outs[i], answers[i], force, dry_run, t),
                    slist, outs, answers, i + 1, force, dry_run, t)

\* touch_finished over the sample list slist; outs[i] is the output of the
\* rsync of slist[i], answers[i] the answer to its prompt
touch_finished(f, slist, outs, answers, force, dry_run, t) ==
    touch_loop(Run(f, <<>>, ""), slist, outs, answers, 1, force, dry_run, t)

RECURSIVE unlink_loop_all(_, _, _, _, _)
\* the loop without the exception made for the Finished marker
unlink_loop_all(st, flist, i, keep, dry_run) ==
    IF i > Len(flist) \/ st.exc # "" THEN st
    ELSE LET r == safe_unlink(st.fs, flist[i], dry_run)
         IN unlink_loop_all(Run(r.fs, Append(st.log, Call("unlink", flist[i])), r.exc),
                            flist, i + 1, keep, dry_run)

RECURSIVE unlink_loop(_, _, _, _, _)
\* for f in flist: skip the Finished marker, safe_unlink the rest
unlink_loop(st, flist, i, keep, dry_run) ==
    IF i > Len(flist) \/ st.exc # "" THEN st
    ELSE IF flist[i] = keep THEN unlink_loop(st, flist, i + 1, keep, dry_run)
    ELSE LET r == safe_unlink(st.fs, flist[i], dry_run)
         IN unlink_loop(Run(r.fs, Append(st.log, Call("unlink", flist[i])), r.exc),
                        flist, i + 1, keep, dry_run)

RECURSIVE rmdir_loop(_, _, _, _)
rmdir_loop(st, dlist, i, dry_run) ==
    IF i > Len(dlist) \/ st.exc # "" THEN st
    ELSE LET r == safe_rmdir(st.fs, dlist[i], dry_run)
         IN rmdir_loop(Run(r.fs, Append(st.log, Call("rmdir", dlist[i])), r.exc),
                       dlist, i + 1, dry_run)

rmdir_order_ascending(dlist) == SortAsc(dlist)

\* the order in which remove_finished removes the directories of dlist
rmdir_order(dlist) == SortDesc(dlist)

\* the final step without the test of dry_run
write_removed_always(st, s, dry_run, t) ==
    IF st.exc # "" THEN st
    ELSE Run(open_write(st.fs, RemovedPath(s), utc_time(t)),
             Append(st.log, Call("write", RemovedPath(s))), "")

\* the final step of remove_finished for a sample: the Removed marker
write_removed(st, s, dry_run, t) ==
    IF st.exc # "" \/ dry_run THEN st
    ELSE Run(open_write(st.fs, RemovedPath(s), utc_time(t)),
             Append(st.log, Call("write", RemovedPath(s))), "")

not_finished_never(f, s) == FALSE

\* "Sample {} not finished; skipping"
not_finished(f, s) == ~exists(f, FinishedPath(s))

already_removed_never(f, s) == FALSE

\* "Sample {} already removed; skipping"
already_removed(f, s) == exists(f, RemovedPath(s))

remove_skips_unless_removed(f, s) ==
    ~isdir(f, SamplePath(s)) \/ not_finished(f, s)

\* TRUE when remove_finished skips the project entry s
remove_skips(f, s) ==
    \/ ~isdir(f, SamplePath(s))
    \/ not_finished(f, s)
    \/ already_removed(f, s)

\* the body of the loop without the confirmation prompt
remove_sample_unprompted(st, s, answer, force, dry_run, t) ==
    IF remove_skips(st.fs, s) THEN st
    ELSE write_removed(
             rmdir_loop(unlink_loop(st, SortAsc(walk_files(st.fs, SamplePath(s))),
                                    1, FinishedPath(s), dry_run),
                        rmdir_order(walk_dirs(st.fs, SamplePath(s))), 1, dry_run),
             s, dry_run, t)

\* the body of remove_finished's loop for the project entry s
remove_sample(st, s, answer, force, dry_run, t) ==
    LET spath == SamplePath(s)
        flist == SortAsc(walk_files(st.fs, spath))
        dlist == walk_dirs(st.fs, spath)
    IN IF remove_skips(st.fs, s) THEN st
       ELSE IF Len(flist) > 0 /\ ~query_yes_no(answer, force) THEN st
       ELSE write_removed(
                rmdir_loop(unlink_loop(st, flist, 1, FinishedPath(s), dry_run),
                           rmdir_order(dlist), 1, dry_run),
                s, dry_run, t)

RECURSIVE remove_loop(_, _, _, _, _, _, _)
remove_loop(st, slist, answers, i, force, dry_run, t) ==
    IF i > Len(slist) \/ st.exc # "" THEN st
    ELSE remove_loop(remove_sample(st, slist[i], answers[slist[i]], force, dry_run, t),
                     slist, answers, i + 1, force, dry_run, t)

\* remove_finished; slist is os.listdir of the project directory, in the
\* order the system gave it
remove_finished(f, slist, answers, force, dry_run, t) ==
    remove_loop(Run(f, <<>>, ""), slist, answers, 1, force, dry_run, t)

\* os.listdir(d): the names of the entries of d
listdir(f, d) == {p[Len(p)] : p \in children(f, d)}

\* the orders a listing of the names S can come in
Orders(S) ==
    {o \in [1..Cardinality(S) -> S] : \A i, j \in DOMAIN o : i # j => o[i] # o[j]}

\* ------------------------------------------------------ the lifecycle runs

Samples == {"S1", "S2"}
\* names a sample list can hold: the samples and one that does not exist
SampleNames == Samples \cup {"nosuch"}

\* rsync outputs: the zero-size text first, later and never; in a dry run
\* rsync is not run and there is no output
Outputs(dry_run) ==
    IF dry_run THEN {<<>>}
    ELSE {<<ZeroSize>>, <<"sent 10 bytes", ZeroSize>>,
          <<"sent 10 bytes", "total size is 5">>}

\* answers to the prompts: none is asked for when forced
Answers(D, force) == IF force THEN {[x \in D |-> TRUE]} ELSE [D -> BOOLEAN]

InitFs ==
    [dirs |-> {<<"prod">>, ProjectPath, SamplePath("S1"), SamplePath("S2"),
               SamplePath("S1") \o <<"a">>, SamplePath("S1") \o <<"a", "c">>,
               SamplePath("S1") \o <<"b">>},
     files |-> [p \in {SamplePath("S1") \o <<"f">>,
                       SamplePath("S1") \o <<"a", "c", "g">>,
                       SamplePath("S1") \o <<"b", "h">>,
                       SamplePath("S2") \o <<"q">>} |-> Data]]

NoCmd == [name |-> "none"]

Init ==
    /\ fs = InitFs
    /\ now = 0
    /\ cmd = NoCmd
    /\ pre = InitFs
    /\ ret = None
    /\ exc = ""
    /\ log = <<>>

\* no command is running: the shell is at its prompt
Idle == cmd = NoCmd

\* pm production touch_finished
TouchFinished ==
    /\ Idle
    /\ \E n \in 0..MaxList : \E slist \in [1..n -> SampleNames] :
       \E force, dry_run \in BOOLEAN : \E outs \in [1..n -> Outputs(dry_run)] :
       \E answers \in Answers(1..n, force) :
        LET r == touch_finished(fs, slist, outs, answers, force, dry_run, now)
        IN /\ fs' = r.fs
           /\ log' = r.log
           /\ exc' = r.exc
           /\ pre' = fs
           /\ cmd' = [name |-> "touch_finished", slist |-> slist, outs |-> outs,
                      answers |-> answers, force |-> force, dry_run |-> dry_run]
           /\ UNCHANGED <<now, ret>>

\* pm production remove_finished
RemoveFinished ==
    /\ Idle
    /\ \E slist \in Orders(listdir(fs, ProjectPath)) :
       \E force, dry_run \in BOOLEAN :
       \E answers \in Answers(listdir(fs, ProjectPath), force) :
        LET r == remove_finished(fs, slist, answers, force, dry_run, now)
        IN /\ fs' = r.fs
           /\ log' = r.log
           /\ exc' = r.exc
           /\ pre' = fs
           /\ cmd' = [name |-> "remove_finished", slist |-> slist,
                      answers |-> answers, force |-> force, dry_run |-> dry_run]
           /\ UNCHANGED <<now, ret>>

\* the pipeline leaves a new file in a sample directory
NewFile ==
    /\ Idle
    /\ \E s \in Samples :
        /\ isdir(fs, SamplePath(s))
        /\ ~exists(fs, SamplePath(s) \o <<"new">>)
        /\ fs' = open_write(fs, SamplePath(s) \o <<"new">>, Data)
        /\ pre' = fs'
        /\ UNCHANGED <<now, cmd, ret, exc, log>>

\* time passes
Tick ==
    /\ Idle
    /\ now < MaxTime
    /\ now' = now + 1
    /\ UNCHANGED <<fs, cmd, pre, ret, exc, log>>

\* the command has ended and the shell is back at its prompt
Done ==
    /\ ~Idle
    /\ cmd' = NoCmd
    /\ pre' = fs
    /\ ret' = None
    /\ exc' = ""
    /\ log' = <<>>
    /\ UNCHANGED <<fs, now>>

Next == TouchFinished \/ RemoveFinished \/ NewFile \/ Tick \/ Done

Spec == Init /\ [][Next]_vars

\* ------------------------------------------------- claims on the lifecycle

Range(q) == {q[i] : i \in DOMAIN q}

\* what lies in and under directory d
Subtree(f, d) ==
    [files |-> [p \in {q \in DOMAIN f.files : IsPrefix(d, q)} |-> f.files[p]],
     dirs |-> {q \in f.dirs : IsPrefix(d, q)}]

\* the last command made a call on a path in or under d
CalledUnder(d) == \E i \in DOMAIN log : IsPrefix(d, log[i][2])

Touched == cmd.name = "touch_finished"
Removing == cmd.name = "remove_finished"

\* the places of sample s in the list of the last touch_finished
Places(s) == {i \in DOMAIN cmd.slist : cmd.slist[i] = s}

\* C1: touch_finished with dry_run off never writes FINISHED_AND_DELIVERED
\* for a sample whose rsync output does not hold "total size is 0", forced
\* or not: the sample stays in NotFinished.
C1_NoMarkWhenSyncPending ==
    (Touched /\ ~cmd.dry_run) =>
        \A s \in Samples :
            (\A i \in Places(s) : ZeroSize \notin Range(cmd.outs[i])) =>
                /\ Call("write", FinishedPath(s)) \notin Range(log)
                /\ ~exists(pre, FinishedPath(s)) => ~exists(fs, FinishedPath(s))

\* C2: touch_finished with dry_run off writes FINISHED_AND_DELIVERED, holding
\* a UTC timestamp, for every existing sample directory whose rsync output
\* holds "total size is 0" anywhere (the very start included) once the
\* prompt is confirmed or forced.
C2_MarkWhenSyncClean ==
    (Touched /\ ~cmd.dry_run) =>
        \A i \in DOMAIN cmd.slist :
            ( /\ isdir(pre, SamplePath(cmd.slist[i]))
              /\ ZeroSize \in Range(cmd.outs[i])
              /\ query_yes_no(cmd.answers[i], cmd.force) ) =>
                /\ Call("write", FinishedPath(cmd.slist[i])) \in Range(log)
                /\ isfile(fs, FinishedPath(cmd.slist[i]))
                /\ fs.files[FinishedPath(cmd.slist[i])].kind = "utc"

\* C3: a command run with dry_run set leaves the filesystem as it was.
C3_DryRunChangesNothing ==
    (cmd.name \in {"touch_finished", "remove_finished", "transfer"} /\ cmd.dry_run)
        => fs = pre

\* the prompt of remove_finished for sample s was confirmed or forced
Consented(s) == query_yes_no(cmd.answers[s], cmd.force)

\* sample s was Finished and not Removed when the last command started
WasFinished(s) ==
    /\ isdir(pre, SamplePath(s))
    /\ exists(pre, FinishedPath(s))
    /\ ~exists(pre, RemovedPath(s))

\* C5: remove_finished with dry_run off and the prompt confirmed or forced
\* leaves in every sample directory that was Finished and not Removed only
\* the two marker files, FINISHED_AND_REMOVED holding a UTC timestamp.
C5_RemoveEmptiesFinished ==
    (Removing /\ ~cmd.dry_run) =>
        \A s \in Samples : (WasFinished(s) /\ Consented(s)) =>
            /\ walk_files(fs, SamplePath(s)) = {FinishedPath(s), RemovedPath(s)}
            /\ walk_dirs(fs, SamplePath(s)) = {}
            /\ fs.files[RemovedPath(s)] = Utc(now)

C5_Witness ==
    /\ Removing /\ ~cmd.dry_run
    /\ WasFinished("S1") /\ Consented("S1")
    /\ walk_dirs(pre, SamplePath("S1")) # {}
    /\ Cardinality(walk_files(pre, SamplePath("S1"))) > 2
    /\ isfile(fs, RemovedPath("S1"))

\* C6: remove_finished, whatever its flags, changes nothing in or under a
\* sample directory that has no FINISHED_AND_DELIVERED: nothing is deleted
\* and no FINISHED_AND_REMOVED is written.
C6_RemoveSparesNotFinished ==
    Removing =>
        \A s \in Samples : ~exists(pre, FinishedPath(s)) =>
            /\ Subtree(fs, SamplePath(s)) = Subtree(pre, SamplePath(s))
            /\ ~CalledUnder(SamplePath(s))

C6_Witness ==
    /\ Removing /\ cmd.force /\ ~cmd.dry_run
    /\ ~exists(pre, FinishedPath("S1"))
    /\ walk_dirs(fs, SamplePath("S1")) # {}
    /\ WasFinished("S2")
    /\ isfile(fs, RemovedPath("S2"))

\* C7: remove_finished run on a sample directory that already carries
\* FINISHED_AND_REMOVED deletes nothing there and rewrites neither marker,
\* new files in the directory or not.
C7_RemoveIdempotentOnRemoved ==
    Removing =>
        \A s \in Samples : exists(pre, RemovedPath(s)) =>
            /\ Subtree(fs, SamplePath(s)) = Subtree(pre, SamplePath(s))
            /\ ~CalledUnder(SamplePath(s))

C7_Witness ==
    /\ Removing /\ cmd.force /\ ~cmd.dry_run
    /\ exists(pre, RemovedPath("S1"))
    /\ exists(pre, FinishedPath("S1"))
    /\ exists(pre, SamplePath("S1") \o <<"new">>)
    /\ pre.files[RemovedPath("S1")] # Utc(now)
    /\ exists(fs, SamplePath("S1") \o <<"new">>)

\* C8: once a sample directory carries FINISHED_AND_REMOVED, no step removes
\* the marker or changes its content.
C8_RemovedIsTerminal ==
    [][\A s \in Samples : exists(fs, RemovedPath(s)) =>
          /\ exists(fs', RemovedPath(s))
          /\ fs'.files[RemovedPath(s)] = fs.files[RemovedPath(s)]]_vars

C8_Witness ==
    /\ Touched /\ ~cmd.dry_run
    /\ exists(pre, RemovedPath("S1"))
    /\ pre.files[RemovedPath("S1")] # Utc(now)
    /\ Call("write", FinishedPath("S1")) \in Range(log)
    /\ fs.files[RemovedPath("S1")] = pre.files[RemovedPath("S1")]

\* ------------------------------------------------------------ the Flowcell

\* a command-line argument that was not given
NoArg == "<None>"

\* a sample of a run; lane is also the prefix of the names of its files
Sample(lane, sequence, name, prj) ==
    [lane |-> lane, sequence |-> sequence, name |-> name, sample_prj |-> prj,
     files |-> <<>>, results |-> <<>>]

Flowcell(path, fc_id, samples) ==
    [path |-> path, fc_id |-> fc_id, samples |-> samples]

\* Flowcell(): no run information
EmptyFlowcell == Flowcell(None, NoArg, <<>>)

\* fc.as_yaml(), and the content of a run information file
as_yaml(fc) == [kind |-> "yaml", fc_id |-> fc.fc_id, samples |-> fc.samples]

\* Flowcell(s): the run information read from the file s
read_flowcell(f, s) ==
    Flowcell(dirname(s), f.files[s].fc_id, f.files[s].samples)

\* fc.load(paths): the run information of the first directory that has any
load(f, paths) ==
    LET info(d) == d \o <<"run_info", ".yaml">>
        have == {i \in DOMAIN paths : isfile(f, info(paths[i]))}
    IN IF have = {} THEN EmptyFlowcell
       ELSE read_flowcell(f, info(paths[CHOOSE i \in have : \A j \in have : i <= j]))

\* fc.subset(field, value)
subset(fc, field, value) ==
    [fc EXCEPT !.samples = SelectSeq(@, LAMBDA x : x[field] = value)]

\* the files under path that belong to lane
lane_files(f, path, lane) ==
    {p \in DOMAIN f.files :
        /\ IsPrefix(path, p)
        /\ Len(p) > Len(path)
        /\ p[Len(path) + 1] = lane}

IsSequenceFile(p) == \E i \in DOMAIN p : p[i] = ".fastq"

\* fc.collect_files(path): each sample's sequence files and result files
collect_files(fc, f, path) ==
    LET mine(x) == lane_files(f, path, x.lane)
    IN [path |-> path, fc_id |-> fc.fc_id,
        samples |-> [i \in DOMAIN fc.samples |->
            [fc.samples[i] EXCEPT
                !.files = SortAsc({p \in mine(fc.samples[i]) : IsSequenceFile(p)}),
                !.results = SortAsc({p \in mine(fc.samples[i]) : ~IsSequenceFile(p)})]]]

\* fc.set_entry(key, field, value); key is (lane, sequence)
set_entry(fc, key, field, value) ==
    [fc EXCEPT !.samples = [i \in DOMAIN @ |->
        IF <<@[i].lane, @[i].sequence>> = key
        THEN [@[i] EXCEPT ![field] = value] ELSE @[i]]]

\* "not fc" of a Flowcell
flowcell_empty(fc) == Len(fc.samples) = 0

\* strip_extensions(x, [ext]): (stem, extension)
strip_extensions(x, ext) ==
    IF x # <<>> /\ x[Len(x)] = ext
    THEN <<SubSeq(x, 1, Len(x) - 1), ext>> ELSE <<x, "">>

RECURSIVE replace(_, _, _)
\* str.replace(old, new)
replace(p, old, new) ==
    IF old = <<>> \/ Len(p) < Len(old) THEN p
    ELSE IF SubSeq(p, 1, Len(old)) = old
         THEN new \o replace(SubSeq(p, Len(old) + 1, Len(p)), old, new)
    ELSE <<Head(p)>> \o replace(Tail(p), old, new)

\* prune_pp_platform_args: the platform arguments of the allow-list
PlatformArgsKept ==
    {"time", "workdir", "account", "partition", "outpath", "jobname"}
prune_pp_platform_args(conf) ==
    [conf EXCEPT !.args = @ \cap PlatformArgsKept]

\* --------------------------------------------------------------- transfer

ProductionRoot == <<"prod">>
ArchiveRoot == <<"arch">>
ProjectRoot == <<"proj">>

\* prune_sequence_files without the deduplication
prune_keeps_all(flist) == flist

\* prune_sequence_files without the precedence of the zipped file
prune_drops_gz(flist) ==
    SortAsc({strip_extensions(flist[i], ".gz")[1] : i \in DOMAIN flist})

\* _prune_sequence_files: one path per stem, the .gz one when there is one
\* (in the order of the stems; a dict gives them in any order)
prune_sequence_files(flist) ==
    LET ks == {strip_extensions(flist[i], ".gz") : i \in DOMAIN flist}
        stems == SortAsc({k[1] : k \in ks})
    IN [i \in DOMAIN stems |->
            IF <<stems[i], ".gz">> \in ks THEN stems[i] \o <<".gz">>
            ELSE stems[i]]

\* self.app.cmd.safe_makedir(d), made by the running command, logged
safe_makedir(st, d, dry_run) ==
    IF st.exc # "" THEN st
    ELSE LET r == dry_makedir(st.fs, d, dry_run, "none")
         IN Run(r.fs, Append(st.log, Call("makedir", d)), r.exc)

\* self.app.cmd.write(fn, data)
cmd_write(st, fn, data, dry_run) ==
    IF st.exc # "" THEN st
    ELSE LET r == dry_write(st.fs, fn, data, dry_run)
         IN Run(r.fs, Append(st.log, Call("write", fn)), r.exc)

\* the transfer_file calls made so far
Copies(l) == Cardinality({i \in DOMAIN l : l[i][1] = "transfer_file"})

\* self.app.cmd.transfer_file(src, tgt): copies src to tgt unless dry_run;
\* the copy numbered fail_at fails
transfer_file(st, src, tgt, dry_run, fail_at) ==
    IF st.exc # "" THEN st
    ELSE LET l == Append(st.log, Call("transfer_file", tgt))
         IN IF dry_run THEN Run(st.fs, l, "")
            ELSE IF Copies(l) = fail_at \/ ~isfile(st.fs, src)
                    \/ ~isdir(st.fs, dirname(tgt))
                 THEN Run(st.fs, l, "IOError")
            ELSE Run(open_write(st.fs, tgt, st.fs.files[src]), l, "")

\* _make_output_dirs
make_output_dirs(st, dirs, dry_run) ==
    LET st1 == IF ~exists(st.fs, dirs.data)
               THEN safe_makedir(st, dirs.data, dry_run) ELSE st
    IN IF st1.exc = "" /\ ~exists(st1.fs, dirs.intermediate)
       THEN safe_makedir(st1, dirs.intermediate, dry_run) ELSE st1

RECURSIVE transfer_files_loop_continues(_, _, _, _, _, _)
\* the loop of _transfer_files, were a failed copy caught and passed over
transfer_files_loop_continues(st, srcs, tgts, i, dry_run, fail_at) ==
    IF i > Len(srcs) THEN st
    ELSE LET st1 == IF ~exists(st.fs, dirname(tgts[i]))
                    THEN safe_makedir(st, dirname(tgts[i]), dry_run) ELSE st
             st2 == transfer_file(st1, srcs[i], tgts[i], dry_run, fail_at)
         IN transfer_files_loop_continues([st2 EXCEPT !.exc = ""],
                srcs, tgts, i + 1, dry_run, fail_at)

RECURSIVE transfer_files_loop(_, _, _, _, _, _)
transfer_files_loop(st, srcs, tgts, i, dry_run, fail_at) ==
    IF i > Len(srcs) \/ st.exc # "" THEN st
    ELSE LET st1 == IF ~exists(st.fs, dirname(tgts[i]))
                    THEN safe_makedir(st, dirname(tgts[i]), dry_run) ELSE st
         IN transfer_files_loop(
                transfer_file(st1, srcs[i], tgts[i], dry_run, fail_at),
                srcs, tgts, i + 1, dry_run, fail_at)

\* _transfer_files(sources, targets)
transfer_files(st, sources, targets, dry_run, fail_at) ==
    transfer_files_loop(st, sources.files \o sources.results,
                        targets.files \o targets.results, 1, dry_run, fail_at)

\* sources and targets of a sample, as both _to_*_structure compute them
Sources(sample) ==
    [files |-> prune_sequence_files(sample.files), results |-> sample.results]
Targets(sources, path, dirs) ==
    [files |-> [i \in DOMAIN sources.files |->
                    replace(sources.files[i], path, dirs.data)],
     results |-> [i \in DOMAIN sources.results |->
                    replace(sources.results[i], path, dirs.intermediate)]]

\* the project directory the delivery goes to
OutputBase(a) ==
    ProjectRoot \o <<IF a.transfer_dir # NoArg THEN a.transfer_dir ELSE a.project>>

pre_casava_dirs_unsplit(base, fc_id) ==
    [data |-> base \o <<"data", fc_id>>,
     intermediate |-> base \o <<"data", fc_id>>]

\* the output directories of _to_pre_casava_structure
pre_casava_dirs(base, fc_id) ==
    [data |-> base \o <<"data", fc_id>>,
     intermediate |-> base \o <<"intermediate", fc_id>>]

RECURSIVE pre_casava_loop(_, _, _, _, _, _)
\* the loop of _to_pre_casava_structure; w is [st, fc], fc being fc_new
pre_casava_loop(w, fc, i, dirs, dry_run, fail_at) ==
    IF i > Len(fc.samples) \/ w.st.exc # "" THEN w
    ELSE LET sample == w.fc.samples[i]
             key == <<sample.lane, sample.sequence>>
             sources == Sources(sample)
             targets == Targets(sources, fc.path, dirs)
             fc1 == set_entry(set_entry(w.fc, key, "files", targets.files),
                              key, "results", targets.results)
         IN pre_casava_loop(
                [st |-> transfer_files(w.st, sources, targets, dry_run, fail_at),
                 fc |-> fc1],
                fc, i + 1, dirs, dry_run, fail_at)

\* _to_pre_casava_structure(fc)
to_pre_casava_structure(st, fc, a) ==
    LET dirs == pre_casava_dirs(OutputBase(a), fc.fc_id)
        w == pre_casava_loop([st |-> make_output_dirs(st, dirs, a.dry_run),
                              fc |-> fc],
                             fc, 1, dirs, a.dry_run, a.fail_at)
    IN cmd_write(w.st, dirs.data \o <<"project_run_info", ".yaml">>,
                 as_yaml(w.fc), a.dry_run)

\* the output directory of a sample in _to_casava_structure
casava_dirs(base, name, fc_id) ==
    [data |-> base \o <<"data", name, fc_id>>,
     intermediate |-> base \o <<"data", name, fc_id>>]

\* the body of the loop of _to_casava_structure for sample i of fc
casava_sample(st, fc, i, a) ==
    LET sample == fc.samples[i]
        key == <<sample.lane, sample.sequence>>
        sources == Sources(sample)
        dirs == casava_dirs(OutputBase(a), sample.name, fc.fc_id)
        targets == Targets(sources, fc.path, dirs)
        fc_new == set_entry(
                      set_entry(subset(subset(fc, "lane", sample.lane),
                                       "name", sample.name),
                                key, "files", targets.files),
                      key, "results", targets.results)
    IN cmd_write(
           transfer_files(make_output_dirs(st, dirs, a.dry_run),
                          sources, targets, a.dry_run, a.fail_at),
           dirs.data \o <<sample.name, "-bcbb-pm-config.yaml">>,
           as_yaml(fc_new), a.dry_run)

RECURSIVE casava_loop(_, _, _, _)
casava_loop(st, fc, i, a) ==
    IF i > Len(fc.samples) \/ st.exc # "" THEN st
    ELSE casava_loop(casava_sample(st, fc, i, a), fc, i + 1, a)

\* the rewrite of one *-post_process.yaml file: safe_unlink, then write;
\* interrupt: the command is stopped between the two calls
rewrite_platform_args(st, pp, dry_run, interrupt) ==
    LET conf == st.fs.files[pp]
        newconf == prune_pp_platform_args(conf)
    IN IF st.exc # "" \/ conf.args = {} \/ newconf = conf THEN st
       ELSE LET r == safe_unlink(st.fs, pp, dry_run)
                st1 == Run(r.fs, Append(st.log, Call("unlink", pp)), r.exc)
            IN IF interrupt /\ st1.exc = ""
               THEN [st1 EXCEPT !.exc = "KeyboardInterrupt"]
               ELSE cmd_write(st1, pp, newconf, dry_run)

RECURSIVE rewrite_loop(_, _, _, _, _)
rewrite_loop(st, ppfiles, i, dry_run, interrupt) ==
    IF i > Len(ppfiles) \/ st.exc # "" THEN st
    ELSE rewrite_loop(rewrite_platform_args(st, ppfiles[i], dry_run, interrupt),
                      ppfiles, i + 1, dry_run, interrupt)

\* filtered_walk(dirs["data"], pp_yaml_filter)
walk_pp_files(f, d) ==
    {p \in walk_files(f, d) : p[Len(p)] = "-post_process.yaml"}

\* _to_casava_structure(fc); after the loop, dirs is the last sample's
to_casava_structure(st, fc, a) ==
    LET st1 == casava_loop(st, fc, 1, a)
        last == fc.samples[Len(fc.samples)]
        dirs == casava_dirs(OutputBase(a), last.name, fc.fc_id)
    IN IF st1.exc # "" THEN st1
       ELSE IF flowcell_empty(fc) THEN [st1 EXCEPT !.exc = "UnboundLocalError"]
       ELSE rewrite_loop(st1, SortAsc(walk_pp_files(st1.fs, dirs.data)), 1,
                         a.dry_run, a.interrupt)

RECURSIVE to_casava_list(_, _, _, _)
\* for f in fc: self._to_casava_structure(f)
to_casava_list(st, fcs, i, a) ==
    IF i > Len(fcs) \/ st.exc # "" THEN st
    ELSE to_casava_list(to_casava_structure(st, fcs[i], a), fcs, i + 1, a)

\* what the resolvers return: a list of Flowcells, a Flowcell, or None
FcList(fcs) == [kind |-> "list", fcs |-> fcs]
FcOne(fc) == [kind |-> "flowcell", fcs |-> <<fc>>]
FcNone == [kind |-> "none", fcs |-> <<>>]

\* _from_casava_structure: one Flowcell per *-bcbb-config.yaml under the
\* project's production directory
from_casava_structure(f, a) ==
    LET samples == SortAsc({p \in walk_files(f, ProductionRoot \o <<a.project>>) :
                               p[Len(p)] = "-bcbb-config.yaml"})
    IN FcList([i \in DOMAIN samples |->
            collect_files(subset(read_flowcell(f, samples[i]),
                                 "sample_prj", a.project),
                          f, dirname(samples[i]))])

\* _from_pre_casava_structure
from_pre_casava_structure(f, a) ==
    LET fc == load(f, <<ArchiveRoot \o <<a.flowcell>>,
                        ProductionRoot \o <<a.flowcell>>>>)
        indir == ProductionRoot \o <<a.flowcell>>
    IN IF a.flowcell = NoArg THEN FcNone
       ELSE IF flowcell_empty(fc) THEN FcNone
       ELSE FcOne(collect_files(subset(fc, "sample_prj", a.project), f, indir))

\* "not fc" of what a resolver returned
not_fc(r) ==
    \/ r.kind = "none"
    \/ r.kind = "list" /\ Len(r.fcs) = 0
    \/ r.kind = "flowcell" /\ flowcell_empty(r.fcs[1])

transfer_refuses_pre_to_pre(a) == a.from_pre_casava /\ a.to_pre_casava

\* the combination transfer refuses: "not delivering from casava input to
\* pre_casava output"
transfer_refuses(a) == ~a.from_pre_casava /\ a.to_pre_casava

\* transfer; a holds the command line: from_pre_casava, to_pre_casava,
\* project, flowcell, transfer_dir, dry_run (and fail_at, the copy that
\* fails, and interrupt, whether the command is stopped in a rewrite)
transfer(f, a) ==
    LET st == Run(f, <<>>, "")
        r == IF a.from_pre_casava THEN from_pre_casava_structure(f, a)
             ELSE from_casava_structure(f, a)
    IN IF transfer_refuses(a) THEN st
       ELSE IF not_fc(r) THEN st
       ELSE IF a.to_pre_casava
            THEN IF r.kind = "list" THEN [st EXCEPT !.exc = "AttributeError"]
                 ELSE to_pre_casava_structure(st, r.fcs[1], a)
       ELSE to_casava_list(st, r.fcs, 1, a)

\* ------------------------------------------------------ the transfer runs

\* the copies one transfer makes at most; fail_at = 0: none fails
MaxCopies == 3
\* the transfers made in a row
MaxRuns == 2

RunInfo ==
    as_yaml(Flowcell(None, "FC1",
                     <<Sample("L1", 1, "S1", "P"), Sample("L2", 1, "S2", "P")>>))

CasavaInfo == as_yaml(Flowcell(None, "FC1", <<Sample("L1", 1, "S1", "P")>>))

PostProcess == [kind |-> "pp", args |-> {"time", "mail-user"}]

\* the flowcell FC1 in the pre-casava layout, with or without its run
\* information, and sample S1 of project P in the casava layout
TransferFs(with_info) ==
    LET fc == ProductionRoot \o <<"FC1">>
        s1 == ProductionRoot \o <<"P", "S1", "FC1">>
        seqs == {fc \o <<"L1", ".fastq">>, fc \o <<"L1", ".fastq", ".gz">>,
                 fc \o <<"L1", ".bam">>, fc \o <<"L2", ".fastq">>,
                 s1 \o <<"L1", ".fastq", ".gz">>, s1 \o <<"L1", ".bam">>}
        info == IF with_info THEN {fc \o <<"run_info", ".yaml">>} ELSE {}
        meta == {s1 \o <<"S1", "-bcbb-config.yaml">>}
        pp == {s1 \o <<"L1", "-post_process.yaml">>}
    IN [dirs |-> {ProductionRoot, ArchiveRoot, ProjectRoot, fc,
                  ProductionRoot \o <<"P">>, ProductionRoot \o <<"P", "S1">>, s1},
        files |-> [p \in seqs \cup info \cup meta \cup pp |->
                      IF p \in info THEN RunInfo
                      ELSE IF p \in meta THEN CasavaInfo
                      ELSE IF p \in pp THEN PostProcess
                      ELSE Data]]

\* run information in which both lanes carry the same sample name
RunInfoShared ==
    as_yaml(Flowcell(None, "FC1",
                     <<Sample("L1", 1, "S1", "P"), Sample("L2", 1, "S1", "P")>>))

\* the same tree, sample S1 having been run on both lanes of FC1
TransferFsShared ==
    LET t == TransferFs(TRUE)
    IN [t EXCEPT !.files[ProductionRoot \o <<"FC1", "run_info", ".yaml">>] =
                     RunInfoShared]

\* the same tree, the production directory of project Q holding the
\* metadata of a sample that the metadata attributes to project P
TransferFsForeign ==
    LET t == TransferFs(TRUE)
        q == ProductionRoot \o <<"Q">>
        m == q \o <<"S3", "FC1", "S3", "-bcbb-config.yaml">>
    IN [dirs |-> t.dirs \cup {q, q \o <<"S3">>, q \o <<"S3", "FC1">>},
        files |-> [x \in DOMAIN t.files \cup {m} |->
                      IF x = m THEN CasavaInfo ELSE t.files[x]]]

InitTransfer ==
    /\ fs \in {TransferFs(TRUE), TransferFs(FALSE), TransferFsShared,
               TransferFsForeign}
    /\ now = 0
    /\ cmd = NoCmd
    /\ pre = fs
    /\ ret = None
    /\ exc = ""
    /\ log = <<>>

\* the copy that fails, 0 for none; a dry run copies nothing
FailAt(dry_run) == IF dry_run THEN {0} ELSE 0..MaxCopies

\* whether the command is stopped (a signal, the operator's Ctrl-C) while
\* it rewrites a post_process file; only looked at when no copy fails
Interrupts(dry_run, fail_at) ==
    IF dry_run \/ fail_at # 0 THEN {FALSE} ELSE BOOLEAN

\* pm production transfer; the clock counts the transfers made
Transfer ==
    /\ Idle
    /\ now < MaxRuns
    /\ \E from_pre_casava, to_pre_casava, dry_run \in BOOLEAN :
       \E project \in {"P", "Q"}, flowcell \in {"FC1", NoArg} :
       \E transfer_dir \in {NoArg, "T"}, fail_at \in FailAt(dry_run) :
       \E interrupt \in Interrupts(dry_run, fail_at) :
        LET a == [name |-> "transfer", from_pre_casava |-> from_pre_casava,
                  to_pre_casava |-> to_pre_casava, project |-> project,
                  flowcell |-> flowcell, transfer_dir |-> transfer_dir,
                  dry_run |-> dry_run, fail_at |-> fail_at,
                  interrupt |-> interrupt]
            r == transfer(fs, a)
        IN /\ fs' = r.fs
           /\ log' = r.log
           /\ exc' = r.exc
           /\ pre' = fs
           /\ cmd' = a
           /\ now' = now + 1
           /\ UNCHANGED ret

NextTransfer == Transfer \/ Done

SpecTransfer == InitTransfer /\ [][NextTransfer]_vars

\* ------------------------------------------------- the primitives, run alone

Other == [kind |-> "data", t |-> 1]

\* the paths handed to the primitives
PrimPaths == {None, <<"a">>, <<"a", "f">>, <<"q">>, <<"q", "x">>}

\* the filesystems the primitives start from; <<>> is the working directory
PrimFilesystems ==
    {[dirs |-> {<<>>}, files |-> <<>>],
     [dirs |-> {<<>>, <<"a">>}, files |-> [p \in {<<"a", "f">>} |-> Data]],
     [dirs |-> {<<>>, <<"a">>},
      files |-> [p \in {<<"a", "f">>, <<"q">>} |-> Data]]}

\* the outcomes of the rsync subprocess, [stdout, returncode]; it does not
\* run in a dry run
ExecResults(dry_run) ==
    IF dry_run THEN {[stdout |-> <<>>, returncode |-> 0]}
    ELSE {[stdout |-> <<"sent 10 bytes">>, returncode |-> 0],
          [stdout |-> <<>>, returncode |-> 1]}

\* what another process may create while dry_makedir runs; nothing runs
\* in a dry run
Races(dry_run) == IF dry_run THEN {"none"} ELSE {"none", "dir", "file"}

InitPrim ==
    /\ fs \in PrimFilesystems
    /\ now = 0
    /\ cmd = NoCmd
    /\ pre = fs
    /\ ret = None
    /\ exc = ""
    /\ log = <<>>

\* a primitive was called and came back with result r
Returned(r, c) ==
    /\ fs' = r.fs
    /\ ret' = r.ret
    /\ exc' = r.exc
    /\ pre' = fs
    /\ cmd' = c
    /\ UNCHANGED <<now, log>>

Unlink ==
    /\ Idle
    /\ \E fn \in PrimPaths, dry_run \in BOOLEAN :
        Returned(dry_unlink(fs, fn, dry_run),
                 [name |-> "dry_unlink", fn |-> fn, dry_run |-> dry_run])

Rmdir ==
    /\ Idle
    /\ \E dname \in PrimPaths, dry_run \in BOOLEAN :
        Returned(dry_rmdir(fs, dname, dry_run),
                 [name |-> "dry_rmdir", fn |-> dname, dry_run |-> dry_run])

Write ==
    /\ Idle
    /\ \E fn \in PrimPaths, data \in {Data, Other}, dry_run \in BOOLEAN :
        Returned(dry_write(fs, fn, data, dry_run),
                 [name |-> "dry_write", fn |-> fn, data |-> data,
                  dry_run |-> dry_run])

Backup ==
    /\ Idle
    /\ \E fn \in PrimPaths, dry_run \in BOOLEAN :
        Returned(dry_backup(fs, fn, ".bak", dry_run),
                 [name |-> "dry_backup", fn |-> fn, dry_run |-> dry_run])

Makedir ==
    /\ Idle
    /\ \E dname \in PrimPaths, dry_run \in BOOLEAN :
       \E race \in Races(dry_run) :
        Returned(dry_makedir(fs, dname, dry_run, race),
                 [name |-> "dry_makedir", fn |-> dname, dry_run |-> dry_run,
                  race |-> race])

Rsync ==
    /\ Idle
    /\ \E src \in PrimPaths, tgt \in PrimPaths :
       \E dry_run \in BOOLEAN, ignore_error \in BOOLEAN, capture \in BOOLEAN :
       \E x \in ExecResults(dry_run) :
        Returned(dry_rsync(fs, src, tgt, "-av", dry_run, ignore_error, capture, x),
                 [name |-> "dry_rsync", fn |-> src, tgt |-> tgt, x |-> x,
                  dry_run |-> dry_run, ignore_error |-> ignore_error,
                  capture |-> capture])

NextPrim == Unlink \/ Rmdir \/ Write \/ Backup \/ Makedir \/ Rsync \/ Done

SpecPrim == InitPrim /\ [][NextPrim]_vars

\* ------------------------------------------------ claims on the primitives

Primitives ==
    {"dry_unlink", "dry_rmdir", "dry_write", "dry_backup", "dry_makedir",
     "dry_rsync"}

DryCall == cmd.name \in Primitives /\ cmd.dry_run

\* dry_rsync was called without a source or without a target
RsyncWithoutEnds == cmd.name = "dry_rsync" /\ (cmd.fn = None \/ cmd.tgt = None)

\* C4 as stated: every primitive called with dry_run set leaves the
\* filesystem as it was and returns the "(DRY_RUN)" string, whatever its
\* arguments.
C4_DryPrimitiveReturnsString ==
    DryCall => (fs = pre /\ Head(ret) = "(DRY_RUN)")

\* C4 as amended: every primitive called with dry_run set leaves the
\* filesystem as it was, raises nothing and returns the "(DRY_RUN)" string,
\* except dry_rsync without a source or a target, which returns None.
C4_DryPrimitiveChangesNothing ==
    DryCall =>
        /\ fs = pre
        /\ exc = ""
        /\ IF RsyncWithoutEnds THEN ret = None ELSE Head(ret) = "(DRY_RUN)"

C4_Witness ==
    /\ DryCall
    /\ cmd.name = "dry_unlink"
    /\ isfile(pre, cmd.fn)
    /\ isfile(fs, cmd.fn)
    /\ Head(ret) = "(DRY_RUN)"

\* -------------------------------------------------- claims on the transfer

Transferred == cmd.name = "transfer"

\* the run information of FC1 was there when the command started
HadRunInfo == isfile(pre, ProductionRoot \o <<"FC1", "run_info", ".yaml">>)

\* the metadata of sample S1 of project P, casava layout
HadCasavaInfo ==
    isfile(pre, ProductionRoot \o <<"P", "S1", "FC1", "S1", "-bcbb-config.yaml">>)

\* the project directory the last transfer delivered to
Delivery ==
    ProjectRoot \o <<IF cmd.transfer_dir = NoArg THEN cmd.project
                     ELSE cmd.transfer_dir>>
DataDir == Delivery \o <<"data", "FC1">>
IntermediateDir == Delivery \o <<"intermediate", "FC1">>
RunInfoFile == DataDir \o <<"project_run_info", ".yaml">>

MaxFiles == 3

\* the sequence files a sample may list: plain, zipped, zipped twice
SeqPaths ==
    {<<"d", "a", ".fastq">>, <<"d", "a", ".fastq", ".gz">>,
     <<"d", "a", ".fastq", ".gz", ".gz">>,
     <<"d", "b", ".fastq">>, <<"d", "b", ".fastq", ".gz">>}

FileLists == UNION {[1..n -> SeqPaths] : n \in 0..MaxFiles}

InitPrune ==
    /\ fs = [dirs |-> {<<>>}, files |-> <<>>]
    /\ now = 0
    /\ cmd = NoCmd
    /\ pre = fs
    /\ ret = None
    /\ exc = ""
    /\ log = <<>>

\* self._prune_sequence_files(flist)
PruneSequenceFiles ==
    /\ Idle
    /\ \E flist \in FileLists :
        /\ cmd' = [name |-> "prune_sequence_files", flist |-> flist]
        /\ ret' = prune_sequence_files(flist)
        /\ UNCHANGED <<fs, now, pre, exc, log>>

\* self._prune_sequence_files(out), out the list the last call returned
PruneAgain ==
    /\ cmd # NoCmd
    /\ cmd.name = "prune_sequence_files"
    /\ cmd' = [name |-> "prune_again", flist |-> ret]
    /\ ret' = prune_sequence_files(ret)
    /\ UNCHANGED <<fs, now, pre, exc, log>>

NextPrune == PruneSequenceFiles \/ PruneAgain \/ Done

SpecPrune == InitPrune /\ [][NextPrune]_vars

\* ---------------------------------------------- claims on deduplication

\* _prune_sequence_files was called on cmd.flist and returned ret
Pruned == cmd # NoCmd /\ cmd.name = "prune_sequence_files"

\* a path with one trailing ".gz" taken off
Stem(p) == IF p # <<>> /\ p[Len(p)] = ".gz" THEN SubSeq(p, 1, Len(p) - 1) ELSE p

Zipped(p) == p # <<>> /\ p[Len(p)] = ".gz"

\* C11: the output of _prune_sequence_files holds exactly one path per
\* distinct stem of the input (a stem is a path with one trailing ".gz"
\* stripped): stem + ".gz" if a ".gz" variant of the stem was in the input,
\* the uncompressed path otherwise.
C11_OnePathPerStem ==
    Pruned =>
        LET inp == Range(cmd.flist)
            stems == {Stem(p) : p \in inp}
        IN /\ Len(ret) = Cardinality(stems)
           /\ \A s \in stems :
                /\ Cardinality({i \in DOMAIN ret : Stem(ret[i]) = s}) = 1
                /\ IF \E p \in inp : Zipped(p) /\ Stem(p) = s
                   THEN s \o <<".gz">> \in Range(ret)
                   ELSE s \in Range(ret)

C11_Witness ==
    /\ Pruned
    /\ {<<"d", "a", ".fastq">>, <<"d", "a", ".fastq", ".gz">>,
        <<"d", "b", ".fastq">>} = Range(cmd.flist)
    /\ Range(ret) = {<<"d", "a", ".fastq", ".gz">>, <<"d", "b", ".fastq">>}

\* C12: _prune_sequence_files applied to its own output returns the same
\* set of paths.
C12_PruneIdempotent ==
    (cmd # NoCmd /\ cmd.name = "prune_again") => Range(ret) = Range(cmd.flist)

C12_Witness ==
    /\ cmd # NoCmd /\ cmd.name = "prune_again"
    /\ cmd.flist = << <<"d", "a", ".fastq", ".gz", ".gz">>, <<"d", "b", ".fastq">> >>
    /\ ret = cmd.flist

\* ------------------------------------- claims on the casava conversion

\* the samples of project P that the run information of FC1 listed when
\* the command started
RunSamples ==
    LET y == pre.files[ProductionRoot \o <<"FC1", "run_info", ".yaml">>].samples
    IN {y[i] : i \in {j \in DOMAIN y : y[j].sample_prj = "P"}}

\* the output directory of a sample in the casava layout
SampleDir(s) == Delivery \o <<"data", s.name, "FC1">>

MetadataFile(s) == SampleDir(s) \o <<s.name, "-bcbb-pm-config.yaml">>

\* the metadata file of s has an entry for the lane of s that lists
\* delivered files, all of them in the output directory of s
Records(f, s) ==
    /\ isfile(f, MetadataFile(s))
    /\ \E j \in DOMAIN f.files[MetadataFile(s)].samples :
        LET e == f.files[MetadataFile(s)].samples[j]
        IN /\ e.lane = s.lane
           /\ e.name = s.name
           /\ e.files # <<>>
           /\ \A p \in Range(e.files) \cup Range(e.results) :
                IsPrefix(SampleDir(s), p) /\ isfile(f, p)

\* a transfer of FC1 into the casava layout that ran to its end
ToCasava ==
    /\ Transferred /\ cmd.from_pre_casava /\ ~cmd.to_pre_casava
    /\ ~cmd.dry_run /\ cmd.project = "P" /\ cmd.flowcell = "FC1"
    /\ HadRunInfo /\ exc = ""

\* C13: after a conversion to the casava layout, dry_run off, every sample
\* of the Flowcell (samples sharing a name across lanes and samples
\* delivered in an earlier run included) has <sample_name>-bcbb-pm-config.yaml
\* in its output directory, recording that sample's new file and result
\* target paths.
C13_MetadataPerSample ==
    ToCasava => \A s \in RunSamples : Records(fs, s)

\* ------------------------------------------- claims on the write primitive

\* dry_write was called on a path
WriteCall == cmd.name = "dry_write" /\ cmd.fn # None

\* C14 as stated: dry_write on a path that exists leaves the filesystem as
\* it was and raises nothing; on a path that does not exist, dry_run off,
\* the file exists afterwards with exactly the given data.
C14_WriteCreatesWhenAbsent ==
    WriteCall =>
        /\ exists(pre, cmd.fn) => (fs = pre /\ exc = "")
        /\ (~exists(pre, cmd.fn) /\ ~cmd.dry_run) =>
              (isfile(fs, cmd.fn) /\ fs.files[cmd.fn] = cmd.data)

\* C14 as amended: dry_write on a path that exists leaves the filesystem as
\* it was and raises nothing; on a path that does not exist, dry_run off,
\* the file exists afterwards with exactly the given data and nothing else
\* has changed when the directory of the path exists, and the call raises
\* IOError, changing nothing, when it does not.
C14_WriteNeverOverwrites ==
    WriteCall =>
        /\ exists(pre, cmd.fn) => (fs = pre /\ exc = "")
        /\ (~exists(pre, cmd.fn) /\ ~cmd.dry_run) =>
              IF isdir(pre, dirname(cmd.fn))
              THEN /\ exc = ""
                   /\ fs = open_write(pre, cmd.fn, cmd.data)
                   /\ isfile(fs, cmd.fn) /\ fs.files[cmd.fn] = cmd.data
              ELSE exc = "IOError" /\ fs = pre

C14_Witness ==
    /\ WriteCall /\ ~cmd.dry_run
    /\ isfile(pre, cmd.fn)
    /\ pre.files[cmd.fn] = Data /\ cmd.data = Other
    /\ fs.files[cmd.fn] = Data
    /\ exc = ""

\* ------------------------------------------------ claims on missing input

\* the *-bcbb-config.yaml files under the production directory of the
\* requested project, when the command started
ProjectMetadata ==
    {p \in DOMAIN pre.files :
        /\ IsPrefix(ProductionRoot \o <<cmd.project>>, p)
        /\ p[Len(p)] = "-bcbb-config.yaml"}

\* the run information files of the requested flowcell
FlowcellRunInfo ==
    {p \in DOMAIN pre.files :
        \E root \in {ArchiveRoot, ProductionRoot} :
            p = root \o <<cmd.flowcell, "run_info", ".yaml">>}

\* file p lists no sample of the requested project
ListsNoSample(p) ==
    \A i \in DOMAIN pre.files[p].samples :
        pre.files[p].samples[i].sample_prj # cmd.project

\* layout resolution found no metadata file, no run information, or no
\* sample of the requested project
MissingInput ==
    /\ Transferred
    /\ IF cmd.from_pre_casava
       THEN \A p \in FlowcellRunInfo : ListsNoSample(p)
       ELSE \A p \in ProjectMetadata : ListsNoSample(p)

\* C15: when layout resolution finds no metadata file (casava source), no
\* run information (pre-casava source) or no sample of the requested
\* project, transfer ends without raising an error and without creating a
\* directory, copying a file or writing a metadata file.
C15_MissingInputAbortsCleanly ==
    MissingInput => (exc = "" /\ fs = pre /\ log = <<>>)

\* ------------------------------------------------ claims on a failing copy

\* the places of the transfer_file calls in the record of the last command
CopyCalls == {i \in DOMAIN log : log[i][1] = "transfer_file"}

\* the copy that was to fail was attempted
CopyFailed ==
    /\ Transferred
    /\ cmd.fail_at > 0
    /\ Cardinality(CopyCalls) >= cmd.fail_at

\* C16: after the first copy that fails, transfer makes no further call (no
\* later file of the sample or of a later sample is copied, no metadata file
\* is written for the failing sample) and raises; what was copied, created
\* or written before the failure is left in place.
C16_FailedCopyAborts ==
    CopyFailed =>
        /\ exc # ""
        /\ Cardinality(CopyCalls) = cmd.fail_at
        /\ log[Len(log)][1] = "transfer_file"
        /\ ~exists(pre, log[Len(log)][2]) => ~exists(fs, log[Len(log)][2])
        /\ \A i \in 1..(Len(log) - 1) : exists(fs, log[i][2])
        /\ \A p \in DOMAIN pre.files :
              /\ isfile(fs, p)
              /\ (\A i \in CopyCalls : log[i][2] # p) => fs.files[p] = pre.files[p]
        /\ pre.dirs \subseteq fs.dirs

C16_Witness ==
    /\ CopyFailed /\ cmd.fail_at = 2
    /\ cmd.from_pre_casava /\ ~cmd.to_pre_casava /\ cmd.transfer_dir = NoArg
    /\ pre.files[ProductionRoot \o <<"FC1", "run_info", ".yaml">>] = RunInfo
    /\ ~exists(pre, ProjectRoot \o <<"P">>)
    /\ isfile(fs, ProjectRoot \o <<"P", "data", "S1", "FC1", "L1", ".fastq", ".gz">>)
    /\ ~exists(fs, ProjectRoot \o <<"P", "data", "S1", "FC1", "L1", ".bam">>)
    /\ ~exists(fs, ProjectRoot \o <<"P", "data", "S1", "FC1", "S1", "-bcbb-pm-config.yaml">>)
    /\ ~exists(fs, ProjectRoot \o <<"P", "data", "S2">>)
    /\ exc = "IOError"

\* ------------------------------------------ claims on the order of removal

\* the places in the record of the last command of the calls of kind op on
\* paths under the directory of sample s
CallsOn(op, s) ==
    {i \in DOMAIN log : log[i][1] = op /\ IsPrefix(SamplePath(s), log[i][2])}

\* remove_finished processed sample s
Processed(s) == Removing /\ WasFinished(s) /\ Consented(s)

\* every file of s but the Finished marker was unlinked, every directory in
\* s was handed to rmdir, and every unlink came before every rmdir
FilesBeforeDirs(s) ==
    /\ \A p \in walk_files(pre, SamplePath(s)) \ {FinishedPath(s)} :
          \E i \in CallsOn("unlink", s) : log[i][2] = p
    /\ \A d \in walk_dirs(pre, SamplePath(s)) :
          \E i \in CallsOn("rmdir", s) : log[i][2] = d
    /\ \A i \in CallsOn("unlink", s), j \in CallsOn("rmdir", s) : i < j

\* C17 as stated: remove_finished unlinks every file of a sample before it
\* attempts any directory, and attempts the directories in descending
\* path-depth order: of any two directories the deeper one first.
C17_DeepestFirst ==
    \A s \in Samples : Processed(s) =>
        /\ FilesBeforeDirs(s)
        /\ \A i, j \in CallsOn("rmdir", s) :
              Len(log[i][2]) > Len(log[j][2]) => i < j

\* C17 as amended: remove_finished unlinks every file of a sample (the
\* Finished marker excepted) before it attempts any directory, and attempts
\* the directories in reverse sorted order of their paths: every directory
\* after all its descendants.
C17_DescendantsFirst ==
    \A s \in Samples : Processed(s) =>
        /\ FilesBeforeDirs(s)
        /\ \A i, j \in CallsOn("rmdir", s) :
              /\ (log[i][2] # log[j][2] /\ IsPrefix(log[j][2], log[i][2])) => i < j
              /\ i < j => PathLess(log[j][2], log[i][2])

C17_Witness ==
    /\ Processed("S1") /\ ~cmd.dry_run
    /\ \E i, j, k \in CallsOn("rmdir", "S1") :
        /\ i < j /\ j < k
        /\ log[i][2] = SamplePath("S1") \o <<"b">>
        /\ log[j][2] = SamplePath("S1") \o <<"a", "c">>
        /\ log[k][2] = SamplePath("S1") \o <<"a">>
    /\ walk_dirs(fs, SamplePath("S1")) = {}

\* --------------------------------------------------- claims on consent

\* C18: remove_finished, force unset and the prompt declined, unlinks no
\* file, removes no directory and writes no FINISHED_AND_REMOVED in a
\* Finished sample; touch_finished, force unset and the prompt declined,
\* writes no FINISHED_AND_DELIVERED.
C18_NoConsentNoChange ==
    /\ (Removing /\ ~cmd.force) =>
          \A s \in Samples : (WasFinished(s) /\ ~cmd.answers[s]) =>
              /\ Subtree(fs, SamplePath(s)) = Subtree(pre, SamplePath(s))
              /\ ~CalledUnder(SamplePath(s))
    /\ (Touched /\ ~cmd.force) =>
          \A s \in Samples : (\A i \in Places(s) : ~cmd.answers[i]) =>
              /\ Subtree(fs, SamplePath(s)) = Subtree(pre, SamplePath(s))
              /\ Call("write", FinishedPath(s)) \notin Range(log)

C18_Witness ==
    /\ Removing /\ ~cmd.force /\ ~cmd.dry_run
    /\ WasFinished("S1") /\ ~cmd.answers["S1"]
    /\ WasFinished("S2") /\ cmd.answers["S2"]
    /\ isfile(fs, SamplePath("S1") \o <<"a", "c", "g">>)
    /\ ~exists(fs, RemovedPath("S1"))
    /\ isfile(fs, RemovedPath("S2"))

\* ------------------------------------- claims on a dry-run remove_finished

\* C19: after a dry-run remove_finished every sample that was Finished is
\* still Finished: FINISHED_AND_DELIVERED is there, FINISHED_AND_REMOVED is
\* not, and a later remove_finished does not skip the sample.
C19_DryRemoveKeepsFinished ==
    (Removing /\ cmd.dry_run) =>
        \A s \in Samples : WasFinished(s) =>
            /\ exists(fs, FinishedPath(s))
            /\ ~exists(fs, RemovedPath(s))
            /\ Call("write", RemovedPath(s)) \notin Range(log)
            /\ ~remove_skips(fs, s)

C19_Witness ==
    /\ Removing /\ cmd.dry_run
    /\ WasFinished("S1") /\ Consented("S1")
    /\ Call("rmdir", SamplePath("S1") \o <<"a">>) \in Range(log)
    /\ exists(fs, FinishedPath("S1"))
    /\ ~exists(fs, RemovedPath("S1"))

\* ------------------------------------ claims on the make-directory primitive

\* dry_makedir was called on a path, dry_run off
MakedirCall == cmd.name = "dry_makedir" /\ ~cmd.dry_run /\ cmd.fn # None

\* C20: when another process creates the directory between the existence
\* check of dry_makedir and its create call, dry_makedir raises nothing and
\* returns the directory name; called on an existing directory it changes
\* nothing; a creation that fails otherwise, the path not being a directory
\* afterwards, is raised.
C20_MakedirToleratesRace ==
    MakedirCall =>
        /\ (~exists(pre, cmd.fn) /\ cmd.race = "dir" /\ isdir(fs, cmd.fn)) =>
              (exc = "" /\ ret = cmd.fn)
        /\ isdir(pre, cmd.fn) => (fs = pre /\ exc = "" /\ ret = cmd.fn)
        /\ (~exists(pre, cmd.fn) /\ ~isdir(fs, cmd.fn)) => exc = "OSError"
        /\ (~exists(pre, cmd.fn) /\ exc = "") => (isdir(fs, cmd.fn) /\ ret = cmd.fn)

C20_Witness ==
    /\ MakedirCall
    /\ ~exists(pre, cmd.fn) /\ cmd.race = "dir"
    /\ isdir(fs, cmd.fn)
    /\ exc = "" /\ ret = cmd.fn

\* ------------------------------- claims on the rewrite of platform arguments

\* the data directories the last transfer copied files into
DeliveryDirs == {dirname(log[i][2]) : i \in CopyCalls}

\* the *-post_process.yaml files of those directories: the ones the last
\* transfer copied there and the ones that were there before
DeliveredPostProcess ==
    {p \in DOMAIN pre.files \cup {log[i][2] : i \in CopyCalls} :
        /\ dirname(p) \in DeliveryDirs
        /\ p[Len(p)] = "-post_process.yaml"}

\* a transfer into the casava layout, no copy failing, that ran to its end
\* or was stopped on its way
CasavaRewrite ==
    /\ Transferred /\ ~cmd.to_pre_casava /\ ~cmd.dry_run /\ cmd.fail_at = 0
    /\ exc \in {"", "KeyboardInterrupt"}

\* C21: after a transfer into the casava layout every *-post_process.yaml
\* under the data directory of a transferred sample holds only platform
\* arguments of the allow-list, and a file that is rewritten is replaced
\* atomically: also when the command is stopped between the steps, the
\* path is there, holding the old or the new content in full.
C21_RewriteAtomic ==
    CasavaRewrite =>
        \A p \in DeliveredPostProcess :
            /\ isfile(fs, p)
            /\ fs.files[p].kind = "pp"
            /\ exc = "" => fs.files[p].args \subseteq PlatformArgsKept

\* ----------------------------------------- claims on the order of the markers

\* C22: in every state reached from a project without markers by
\* touch_finished and remove_finished, a sample directory that carries
\* FINISHED_AND_REMOVED also carries FINISHED_AND_DELIVERED.
C22_RemovedImpliesFinished ==
    \A s \in Samples :
        exists(fs, RemovedPath(s)) => exists(fs, FinishedPath(s))

C22_Witness ==
    /\ Removing /\ ~cmd.dry_run
    /\ WasFinished("S1")
    /\ Call("write", RemovedPath("S1")) \in Range(log)
    /\ Call("unlink", SamplePath("S1") \o <<"f">>) \in Range(log)
    /\ isfile(fs, RemovedPath("S1"))
    /\ isfile(fs, FinishedPath("S1"))
    /\ fs.files[FinishedPath("S1")] = pre.files[FinishedPath("S1")]

====
